---------------------------- MODULE Spec2Model ----------------------------
(***************************************************************************)
(* DALIScraper.py: scrape the DALI Lite results page, filter the proteins  *)
(* it lists against the user's thresholds and keywords, fetch the PDB file *)
(* of every accepted one and write structures_list.txt.                    *)
(*                                                                         *)
(* Python strings are sequences of one-character strings; a Python index k *)
(* (0-based) is the TLA+ index k + 1.                                      *)
(***************************************************************************)
EXTENDS Integers, Sequences, FiniteSets, TLC

(***************************************************************************)
(* Bounds of the model.                                                    *)
(***************************************************************************)
\* longest page (in lines) of the parser family of inputs
MaxLines == 3
\* most data rows below the header in the filter family of inputs
MaxRows == 3
\* largest threshold compared in the monotonicity check
MaxThresh == 5

(***************************************************************************)
(* Python primitives used by the script.                                   *)
(***************************************************************************)
Min(a, b) == IF a <= b THEN a ELSE b

Max(a, b) == IF a >= b THEN a ELSE b

\* s[k] for a Python index k >= 0
At(s, k) == s[k + 1]

\* s[b:e] with Python's handling of negative and out-of-range indices
Slice(s, b, e) ==
    LET n  == Len(s)
        lo == IF b < 0 THEN Max(n + b, 0) ELSE Min(b, n)
        hi == IF e < 0 THEN Max(n + e, 0) ELSE Min(e, n)
    IN  SubSeq(s, lo + 1, hi)

\* s[b:]
SliceFrom(s, b) == Slice(s, b, Len(s))

\* smallest element of a non-empty set of integers
Lowest(S) == CHOOSE k \in S : \A m \in S : k <= m

\* str.find: lowest 0-based index at which sub occurs in s, -1 if none
Find(s, sub) ==
    LET hits == {k \in 0..(Len(s) - Len(sub)) : SubSeq(s, k + 1, k + Len(sub)) = sub}
    IN  IF hits = {} THEN -1 ELSE Lowest(hits)

Whitespace == {" ", "\t"}

\* str.split() without arguments: the maximal runs of non-whitespace, taken
\* one token at a time from index k on
RECURSIVE SplitFrom(_, _, _)
SplitFrom(s, k, acc) ==
    IF \A m \in k..Len(s) : s[m] \in Whitespace THEN acc
    ELSE LET b == CHOOSE m \in k..Len(s) :
                     s[m] \notin Whitespace /\ \A j \in k..(m - 1) : s[j] \in Whitespace
             e == CHOOSE m \in b..Len(s) :
                     /\ m = Len(s) \/ s[m + 1] \in Whitespace
                     /\ \A j \in b..m : s[j] \notin Whitespace
         IN  SplitFrom(s, e + 1, Append(acc, SubSeq(s, b, e)))

Split(s) == SplitFrom(s, 1, <<>>)

\* sep.join(toks)
RECURSIVE Join(_, _)
Join(toks, sep) ==
    IF toks = <<>> THEN <<>>
    ELSE IF Len(toks) = 1 THEN toks[1]
    ELSE toks[1] \o sep \o Join(Tail(toks), sep)

DigitChars == <<"0", "1", "2", "3", "4", "5", "6", "7", "8", "9">>

IsDigit(c) == \E d \in 1..10 : DigitChars[d] = c

DigitVal(c) == (CHOOSE d \in 1..10 : DigitChars[d] = c) - 1

RECURSIVE DigitsValue(_, _)
DigitsValue(s, acc) ==
    IF s = <<>> THEN acc
    ELSE IF s[1] = "_" THEN DigitsValue(Tail(s), acc)
    ELSE DigitsValue(Tail(s), 10 * acc + DigitVal(s[1]))

\* int(s) for a token s (no surrounding whitespace): an optional sign, then
\* digits that single underscores may separate; anything else raises ValueError
PyInt(s) ==
    LET signed == s # <<>> /\ s[1] \in {"+", "-"}
        body   == IF signed THEN Tail(s) ELSE s
        ok     == /\ body # <<>>
                  /\ \A k \in 1..Len(body) : IsDigit(body[k]) \/ body[k] = "_"
                  /\ IsDigit(body[1]) /\ IsDigit(body[Len(body)])
                  /\ \A k \in 1..(Len(body) - 1) : ~(body[k] = "_" /\ body[k + 1] = "_")
    IN  IF ~ok THEN [ok |-> FALSE, val |-> 0]
        ELSE [ok  |-> TRUE,
              val |-> IF signed /\ s[1] = "-" THEN 0 - DigitsValue(body, 0)
                      ELSE DigitsValue(body, 0)]

RECURSIVE NatStr(_)
NatStr(n) == IF n < 10 THEN <<DigitChars[n + 1]>>
             ELSE NatStr(n \div 10) \o <<DigitChars[(n % 10) + 1]>>

\* str(n) for an int
Str(n) == IF n < 0 THEN <<"-">> \o NatStr(0 - n) ELSE NatStr(n)

(***************************************************************************)
(* scrape_page                                                             *)
(***************************************************************************)
\* the header line of the results table
HEADER == <<" "," "," "," ","N","o",":"," "," ","C","h","a","i","n"," "," "," ","Z"," "," "," "," ","r","m","s","d"," ","l","a","l","i"," ","n","r","e","s"," "," ","%","i","d"," ","P","D","B"," "," ","D","e","s","c","r","i","p","t","i","o","n">>

\* Protein.__init__
Protein(number, pdb_id, chain, l_ali, n_res, description) ==
    [number |-> number, pdb_id |-> pdb_id, chain |-> chain,
     l_ali |-> l_ali, n_res |-> n_res, description |-> description]

NoProtein == Protein(0, <<>>, <<>>, 0, 0, <<>>)

Raised(e) == [exc |-> e, protein |-> NoProtein]

\* a parser that never raises: a missing token reads as empty, a non-integer as 0
ParseRowLenient(line) ==
    LET split_line == Split(line)
        tok(k)     == IF Len(split_line) > k THEN At(split_line, k) ELSE <<>>
        num(s)     == IF PyInt(s).ok THEN PyInt(s).val ELSE 0
        begin      == Find(tok(14), <<">">>) + 1
        end        == Find(tok(14), <<"<">>)
        description == Join(SliceFrom(split_line, 24), <<" ">>)
    IN  [exc |-> "none",
         protein |-> Protein(num(Slice(tok(14), begin, end)),
                             Slice(tok(15), 0, 4), SliceFrom(tok(15), -1),
                             num(tok(18)), num(tok(19)),
                             Slice(description, 0, -1))]

\* the body of the elif branch: one data row to one Protein, or the exception
\* the first failing statement raises
ParseRow(line) ==
    LET split_line == Split(line)
        n          == Len(split_line)
    IN  IF n <= 14 THEN Raised("IndexError")
        ELSE
        LET begin  == Find(At(split_line, 14), <<">">>) + 1
            end    == Find(At(split_line, 14), <<"<">>)
            number == PyInt(Slice(At(split_line, 14), begin, end))
        IN  IF ~number.ok THEN Raised("ValueError")
            ELSE IF n <= 15 THEN Raised("IndexError")
            ELSE
            LET pdb_id == Slice(At(split_line, 15), 0, 4)
                chain  == SliceFrom(At(split_line, 15), -1)
            IN  IF n <= 18 THEN Raised("IndexError")
                ELSE
                LET l_ali == PyInt(At(split_line, 18))
                IN  IF ~l_ali.ok THEN Raised("ValueError")
                    ELSE IF n <= 19 THEN Raised("IndexError")
                    ELSE
                    LET n_res == PyInt(At(split_line, 19))
                    IN  IF ~n_res.ok THEN Raised("ValueError")
                        ELSE
                        LET description == Join(SliceFrom(split_line, 24), <<" ">>)
                        IN  [exc |-> "none",
                             protein |-> Protein(number.val, pdb_id, chain,
                                                 l_ali.val, n_res.val,
                                                 Slice(description, 0, -1))]

\* the header test of the loop, on the text of the line
IsHeaderStripped(line) == Split(line) = Split(HEADER)

IsHeader(line) == HEADER = line

\* the for loop over split_text from line k on (1-based), with the loop's
\* found counter and the list built so far
RECURSIVE ScrapeLoop(_, _, _, _, _)
ScrapeLoop(split_text, k, found, protein_list, max_proteins) ==
    IF k > Len(split_text) THEN [exc |-> "none", list |-> protein_list]
    ELSE IF found = 0 /\ IsHeader(split_text[k])
         THEN \* found = 1; continue (the break test is skipped)
              ScrapeLoop(split_text, k + 1, 1, protein_list, max_proteins)
    ELSE IF found > 0
         THEN LET row == ParseRow(split_text[k])
              IN  IF row.exc # "none" THEN [exc |-> row.exc, list |-> <<>>]
                  ELSE IF found + 1 > max_proteins
                       THEN [exc |-> "none", list |-> Append(protein_list, row.protein)]
                       ELSE ScrapeLoop(split_text, k + 1, found + 1,
                                       Append(protein_list, row.protein), max_proteins)
    ELSE IF found > max_proteins
         THEN [exc |-> "none", list |-> protein_list]
         ELSE ScrapeLoop(split_text, k + 1, found, protein_list, max_proteins)

\* scrape_page(url, max_proteins) on the lines of the page requests.get returned
scrape_page(split_text, max_proteins) ==
    ScrapeLoop(split_text, 1, 0, <<>>, max_proteins)

(***************************************************************************)
(* get_inputs, validate_proteins and the text of get_pdb_files             *)
(***************************************************************************)
\* get_inputs(args): (url, output_dir, nres, l_ali, max_num, descs), or the
\* ValueError of the first int() that fails
get_inputs(args) ==
    LET nres    == PyInt(At(args, 3))
        l_ali_  == PyInt(At(args, 4))
        max_num_ == PyInt(At(args, 5))
        descs   == SliceFrom(args, 6)
    IN  IF nres.ok /\ l_ali_.ok /\ max_num_.ok
        THEN [exc |-> "none",
              ret |-> <<At(args, 1), At(args, 2), nres.val, l_ali_.val, max_num_.val, descs>>]
        ELSE [exc |-> "ValueError",
              ret |-> <<<<>>, <<>>, 0, 0, 0, <<>>>>]

\* x in list
InList(x, list) == \E k \in 1..Len(list) : list[k] = x

validate_proteins_or(protein, pdb_names_, l_ali_thresh, n_res_thresh, description_req) ==
    /\ (protein.l_ali >= l_ali_thresh \/ protein.n_res >= n_res_thresh)
    /\ ~InList(protein.pdb_id, pdb_names_)
    /\ \E k \in 1..Len(description_req) : Find(protein.description, description_req[k]) >= 0

validate_proteins_nodedup(protein, pdb_names_, l_ali_thresh, n_res_thresh, description_req) ==
    /\ protein.l_ali >= l_ali_thresh
    /\ protein.n_res >= n_res_thresh
    /\ \E k \in 1..Len(description_req) : Find(protein.description, description_req[k]) >= 0

validate_proteins_flipped(protein, pdb_names_, l_ali_thresh, n_res_thresh, description_req) ==
    /\ protein.l_ali <= l_ali_thresh
    /\ protein.n_res >= n_res_thresh
    /\ ~InList(protein.pdb_id, pdb_names_)
    /\ \E k \in 1..Len(description_req) : Find(protein.description, description_req[k]) >= 0

validate_proteins(protein, pdb_names_, l_ali_thresh, n_res_thresh, description_req) ==
    /\ protein.l_ali >= l_ali_thresh
    /\ protein.n_res >= n_res_thresh
    /\ ~InList(protein.pdb_id, pdb_names_)
    /\ \E k \in 1..Len(description_req) : Find(protein.description, description_req[k]) >= 0

\* the initial value of structures: the two header lines of the table
TABLE_HEAD == <<"P","D","B","_","I","D"," "," ","c","h","a","i","n"," "," ","l","_","a","l","i"," "," ","n","_","r","e","s"," "," ","d","e","s","c","r","i","p","t","i","o","n","\n","-","-","-","-","-","-"," "," ","-","-","-","-","-"," "," ","-","-","-","-","-"," "," ","-","-","-","-","-"," "," ","-","-","-","-","-","-","-","-","-","-","-">>

Spaces(n) == [k \in 1..n |-> " "]

\* the text get_pdb_files appends to structures for one accepted protein
StructureLine(protein) ==
    <<"\n">> \o protein.pdb_id \o Spaces(4) \o protein.chain \o Spaces(6)
        \o Str(protein.l_ali) \o Spaces(4) \o Str(protein.n_res) \o Spaces(4)
        \o protein.description

\* get_pdb_files as a function of its arguments when no retrieval raises:
\* the loop from protein k on, returning (structures, count)
RECURSIVE PdbFilesLoop(_, _, _, _, _, _, _, _)
PdbFilesLoop(prots, k, names, structs, cnt, l_ali_thresh, n_res_thresh, description_req) ==
    IF k > Len(prots) THEN <<structs, cnt>>
    ELSE IF validate_proteins(prots[k], names, l_ali_thresh, n_res_thresh, description_req)
         THEN PdbFilesLoop(prots, k + 1, Append(names, prots[k].pdb_id),
                           structs \o StructureLine(prots[k]), cnt + 1,
                           l_ali_thresh, n_res_thresh, description_req)
         ELSE PdbFilesLoop(prots, k + 1, names, structs, cnt,
                           l_ali_thresh, n_res_thresh, description_req)

get_pdb_files(prots, l_ali_thresh, n_res_thresh, description_req) ==
    PdbFilesLoop(prots, 1, <<>>, TABLE_HEAD, 0, l_ali_thresh, n_res_thresh, description_req)

NO_PROTEINS_MSG == <<"N","o"," ","p","r","o","t","e","i","n","s"," ","w","e","r","e"," ","f","o","u","n","d"," ","t","h","a","t"," ","m","a","t","c","h"," ","y","o","u","r"," ","s","e","a","r","c","h"," ","c","r","i","t","e","r","i","a",".">>

DOWNLOADED_MSG == <<"s","t","r","u","c","t","u","r","e","s"," ","w","e","r","e"," ","f","o","u","n","d"," ","a","n","d"," ","d","o","w","n","l","o","a","d","e","d",".">>

STRUCTURES_LIST_TXT == <<"/","s","t","r","u","c","t","u","r","e","s","_","l","i","s","t",".","t","x","t">>

(***************************************************************************)
(* The inputs of a run: the command line and the page behind the URL.      *)
(***************************************************************************)
X == <<"x">>

Filler(n) == [k \in 1..n |-> X]

\* a data row whose whitespace-separated tokens carry the rank at index 14,
\* the chain identifier at 15, lali at 18, nres at 19, the description from 24
RowTokens(rank, ident, lali, nres, descToks) ==
    Filler(14) \o <<rank, ident>> \o Filler(2) \o <<lali, nres>> \o Filler(4) \o descToks

Row(rank, ident, lali, nres, descToks) ==
    Join(RowTokens(rank, ident, lali, nres, descToks), <<" ">>)

TokHistone == <<"H","i","s","t","o","n","e">>

TokDeacetylase == <<"d","e","a","c","e","t","y","l","a","s","e",";">>

TokHISTONE == <<"H","I","S","T","O","N","E">>

TokKinase == <<"K","i","n","a","s","e",";">>

Id1abcA == <<"1","a","b","c","A">>

Id1abcB == <<"1","a","b","c","B">>

Id2xyzA == <<"2","x","y","z","-","A">>

Rank(d) == <<"H","=","#",">">> \o d \o <<"<","/","A",">",":">>

RowA == Row(Rank(<<"1">>), Id1abcA, <<"3">>, <<"4">>, <<TokHistone, TokDeacetylase>>)

RowB == Row(Rank(<<"2">>), Id1abcB, <<"4">>, <<"3">>, <<TokHistone, TokDeacetylase>>)

RowC == Row(Rank(<<"1","0">>), Id2xyzA, <<"4">>, <<"1","2">>, <<TokHISTONE, TokKinase>>)

\* malformed rows: too few tokens, and a non-integer for lali, nres and the rank
RowShort == Join(SubSeq(RowTokens(Rank(<<"4">>), Id2xyzA, <<"4">>, <<"4">>, <<>>), 1, 19), <<" ">>)

RowBadLali == Row(Rank(<<"5">>), Id2xyzA, <<"4",".","5">>, <<"4">>, <<TokHistone, TokDeacetylase>>)

RowBadNres == Row(Rank(<<"6">>), Id2xyzA, <<"4">>, <<"n">>, <<TokHistone, TokDeacetylase>>)

RowBadRank == Row(Rank(<<"*">>), Id2xyzA, <<"4">>, <<"4">>, <<TokHistone, TokDeacetylase>>)

\* the header line without its leading blanks
HeaderStripped == SliceFrom(HEADER, 4)

ParseLines == {HEADER, HeaderStripped, RowA, RowShort, RowBadLali, RowBadNres, RowBadRank}

FilterLines == {RowA, RowB, RowC, RowShort}

SeqsUpTo(S, n) == UNION {[1..m -> S] : m \in 0..n}

KwHistone == <<"H","i","s","t","o","n","e">>

KwHISTONE == <<"H","I","S","T","O","N","E">>

KwKinase == <<"K","i","n","a","s","e">>

KwHist == <<"H","i","s","t">>

Argv(nresArg, laliArg, maxArg, kws) ==
    << <<"D","A","L","I","S","c","r","a","p","e","r",".","p","y">>,
       <<"h","t","t","p",":","/","/","d","a","l","i","/","r",".","h","t","m","l">>,
       <<"/","h","o","m","e">>,
       nresArg, laliArg, maxArg >> \o kws

\* parser family: any page over ParseLines, any row cap, fixed thresholds
ParseInputs ==
    {[argv |-> Argv(<<"3">>, <<"3">>, m, <<KwHist>>), text |-> t] :
        m \in {<<"-","1">>, <<"0">>, <<"1">>, <<"2">>, <<"3">>, <<"n">>},
        t \in SeqsUpTo(ParseLines, MaxLines)}

\* filter family: the header and the rows below it, any thresholds and keywords
FilterInputs ==
    {[argv |-> Argv(a[1], a[2], <<"1","2">>, kws), text |-> <<HEADER>> \o rows] :
        a \in {<<"3">>, <<"4">>} \X {<<"3">>, <<"4">>},
        kws \in {<<>>, <<KwHistone>>, <<KwHISTONE>>, <<KwKinase, KwHist>>},
        rows \in SeqsUpTo(FilterLines, MaxRows)}

(***************************************************************************)
(* The run of the script.                                                  *)
(***************************************************************************)
VARIABLES
    argv,          \* sys.argv
    text,          \* requests.get(url).text, as page.text.splitlines() gives it
    pc,            \* the statement the script is at
    url, output_dir, l_ali, n_res, max_num, desc,   \* the globals of line 233
    proteins,      \* the global of line 234
    pdb_names, structures, count, i,   \* the locals of get_pdb_files; i indexes proteins
    fetchLog,      \* the identifiers retrieve_pdb_file has been called with
    file,          \* structures_list.txt
    console,       \* the lines printed to stdout
    exc            \* the uncaught exception that ended the run, if any

vars == <<argv, text, pc, url, output_dir, l_ali, n_res, max_num, desc, proteins,
          pdb_names, structures, count, i, fetchLog, file, console, exc>>

NoExc == [type |-> "none", raisedIn |-> "none"]

NoFile == [path |-> <<>>, text |-> <<>>]

Init ==
    /\ \E in \in ParseInputs \cup FilterInputs : argv = in.argv /\ text = in.text
    /\ pc = "get_inputs"
    /\ url = <<>> /\ output_dir = <<>>
    /\ l_ali = 0 /\ n_res = 0 /\ max_num = 0 /\ desc = <<>>
    /\ proteins = <<>>
    /\ pdb_names = <<>> /\ structures = <<>> /\ count = 0 /\ i = 1
    /\ fetchLog = <<>>
    /\ file = NoFile
    /\ console = <<>>
    /\ exc = NoExc

\* line 233: url, output_dir, l_ali, n_res, max_num, desc = get_inputs(sys)
GetInputs ==
    /\ pc = "get_inputs"
    /\ LET r == get_inputs(argv)
       IN  IF r.exc = "none"
           THEN /\ url' = r.ret[1]
                /\ output_dir' = r.ret[2]
                /\ l_ali' = r.ret[3]
                /\ n_res' = r.ret[4]
                /\ max_num' = r.ret[5]
                /\ desc' = r.ret[6]
                /\ pc' = "scrape_page"
                /\ exc' = exc
           ELSE /\ pc' = "aborted"
                /\ exc' = [type |-> r.exc, raisedIn |-> "get_inputs"]
                /\ UNCHANGED <<url, output_dir, l_ali, n_res, max_num, desc>>
    /\ UNCHANGED <<argv, text, proteins, pdb_names, structures, count, i,
                   fetchLog, file, console>>

\* line 234: proteins = scrape_page(url, max_num)
ScrapePage ==
    /\ pc = "scrape_page"
    /\ LET r == scrape_page(text, max_num)
       IN  IF r.exc = "none"
           THEN /\ proteins' = r.list
                /\ pc' = "print_results"
                /\ exc' = exc
           ELSE /\ pc' = "aborted"
                /\ exc' = [type |-> r.exc, raisedIn |-> "scrape_page"]
                /\ proteins' = proteins
    /\ UNCHANGED <<argv, text, url, output_dir, l_ali, n_res, max_num, desc,
                   pdb_names, structures, count, i, fetchLog, file, console>>

\* line 235 and print_results up to the first iteration of get_pdb_files' loop,
\* or its else branch
PrintResults ==
    /\ pc = "print_results"
    /\ \/ /\ Len(proteins) > 0
          /\ pdb_names' = <<>>
          /\ structures' = TABLE_HEAD
          /\ count' = 0
          /\ i' = 1
          /\ pc' = "for"
          /\ console' = console
       \/ /\ ~(Len(proteins) > 0)
          /\ console' = Append(console, NO_PROTEINS_MSG)
          /\ pc' = "done"
          /\ UNCHANGED <<pdb_names, structures, count, i>>
    /\ UNCHANGED <<argv, text, url, output_dir, l_ali, n_res, max_num, desc,
                   proteins, fetchLog, file, exc>>

\* lines 185-186: the next protein of the loop and its validate_proteins call
FilterStep ==
    /\ pc = "for"
    /\ \/ /\ i > Len(proteins)
          /\ pc' = "write_pdb_list"
          /\ i' = i
       \/ /\ i <= Len(proteins)
          /\ validate_proteins(proteins[i], pdb_names, l_ali, n_res, desc)
          /\ pc' = "retrieve"
          /\ i' = i
       \/ /\ i <= Len(proteins)
          /\ ~validate_proteins(proteins[i], pdb_names, l_ali, n_res, desc)
          /\ pc' = "for"
          /\ i' = i + 1
    /\ UNCHANGED <<argv, text, url, output_dir, l_ali, n_res, max_num, desc,
                   proteins, pdb_names, structures, count, fetchLog, file,
                   console, exc>>

RetrieveSkipped ==
    /\ pc = "retrieve"
    /\ pc' = "append"
    /\ UNCHANGED <<argv, text, url, output_dir, l_ali, n_res, max_num, desc,
                   proteins, pdb_names, structures, count, i, fetchLog, file,
                   console, exc>>

\* lines 187-188: pdb.retrieve_pdb_file(...), which returns or raises
Retrieve ==
    /\ pc = "retrieve"
    /\ fetchLog' = Append(fetchLog, proteins[i].pdb_id)
    /\ \/ /\ pc' = "append"
          /\ exc' = exc
       \/ /\ pc' = "aborted"
          /\ exc' = [type |-> "Exception", raisedIn |-> "retrieve_pdb_file"]
    /\ UNCHANGED <<argv, text, url, output_dir, l_ali, n_res, max_num, desc,
                   proteins, pdb_names, structures, count, i, file, console>>

\* lines 190-198: record the accepted protein
AppendStructure ==
    /\ pc = "append"
    /\ pdb_names' = Append(pdb_names, proteins[i].pdb_id)
    /\ structures' = structures \o StructureLine(proteins[i])
    /\ count' = count + 1
    /\ i' = i + 1
    /\ pc' = "for"
    /\ UNCHANGED <<argv, text, url, output_dir, l_ali, n_res, max_num, desc,
                   proteins, fetchLog, file, console, exc>>

\* line 226: write_pdb_list(structures, output_dir)
WritePdbList ==
    /\ pc = "write_pdb_list"
    /\ file' = [path |-> output_dir \o STRUCTURES_LIST_TXT, text |-> structures]
    /\ pc' = "print_count"
    /\ UNCHANGED <<argv, text, url, output_dir, l_ali, n_res, max_num, desc,
                   proteins, pdb_names, structures, count, i, fetchLog,
                   console, exc>>

\* line 228: print(count, "structures were found and downloaded.")
PrintCount ==
    /\ pc = "print_count"
    /\ console' = Append(console, Str(count) \o <<" ">> \o DOWNLOADED_MSG)
    /\ pc' = "done"
    /\ UNCHANGED <<argv, text, url, output_dir, l_ali, n_res, max_num, desc,
                   proteins, pdb_names, structures, count, i, fetchLog, file, exc>>

Next ==
    \/ GetInputs
    \/ ScrapePage
    \/ PrintResults
    \/ FilterStep
    \/ Retrieve
    \/ AppendStructure
    \/ WritePdbList
    \/ PrintCount

Spec == Init /\ [][Next]_vars

(***************************************************************************)
(* Vocabulary of the properties.                                           *)
(***************************************************************************)
\* sub occurs somewhere in s, characters compared exactly
Contains(s, sub) ==
    \E k \in 1..(Len(s) - Len(sub) + 1) :
        \A m \in 1..Len(sub) : s[k + m - 1] = sub[m]

\* index of the first line equal to the header, 0 if there is none
HeaderIndex(t) ==
    IF \E k \in 1..Len(t) : t[k] = HEADER
    THEN CHOOSE k \in 1..Len(t) : t[k] = HEADER /\ \A m \in 1..(k - 1) : t[m] # HEADER
    ELSE 0

\* the text of the rank token between its '>' and its '<'
RankText(tok) == Slice(tok, Find(tok, <<">">>) + 1, Find(tok, <<"<">>))

\* a data row with fewer tokens than the highest index read (19), or with a
\* non-integer where the rank, alignment_length or residue_count is expected
MalformedRow(line) ==
    LET toks == Split(line)
    IN  \/ Len(toks) < 20
        \/ ~PyInt(RankText(toks[15])).ok
        \/ ~PyInt(toks[19]).ok
        \/ ~PyInt(toks[20]).ok

\* get_inputs has returned
InputsRead == pc # "get_inputs" /\ exc.raisedIn # "get_inputs"

\* scrape_page has been called and has returned or raised
ScrapeCalled == InputsRead /\ pc # "scrape_page"

\* the record meets both thresholds of the filter loop and the keyword requirement
Qualifies(p) ==
    /\ p.l_ali >= l_ali
    /\ p.n_res >= n_res
    /\ \E k \in 1..Len(desc) : Contains(p.description, desc[k])

\* among the first upto records, the indices of the earliest qualifying row
\* of each structure_id
EarliestQualifying(upto) ==
    {j \in 1..upto :
        /\ Qualifies(proteins[j])
        /\ \A k \in 1..(j - 1) :
              ~(Qualifies(proteins[k]) /\ proteins[k].pdb_id = proteins[j].pdb_id)}

\* the table lines of the records of idx among j..upto, in sequence order
RECURSIVE LinesOf(_, _, _)
LinesOf(idx, j, upto) ==
    IF j > upto THEN <<>>
    ELSE (IF j \in idx THEN StructureLine(proteins[j]) ELSE <<>>) \o LinesOf(idx, j + 1, upto)

\* get_pdb_files has been entered
InGetPdbFiles == structures # <<>>

(***************************************************************************)
(* Properties.                                                             *)
(***************************************************************************)

\* C1: for a page that holds the header followed by N well-formed rows and
\* nothing else below it, and every max_n >= 0, scrape_page returns exactly the
\* first min(N, max_n) rows below the header, in their order.
C1_ScrapeReturnsMinRows ==
    LET h == HeaderIndex(text)
        N == Len(text) - h
    IN  (/\ ScrapeCalled
         /\ h > 0
         /\ \A k \in (h + 1)..Len(text) : ~MalformedRow(text[k])
         /\ max_num >= 0)
        => /\ exc.raisedIn # "scrape_page"
           /\ proteins = [k \in 1..Min(N, max_num) |-> ParseRow(text[h + k]).protein]

\* C2: a record is accepted only if its residue_count is at least the third
\* argument of the command line (minimum residue count) and its
\* alignment_length at least the fourth (minimum alignment length).
C2_ArgumentsBoundTheirOwnFields ==
    pc = "retrieve"
        => /\ proteins[i].n_res >= PyInt(argv[4]).val
           /\ proteins[i].l_ali >= PyInt(argv[5]).val

\* C3: the accepted output never holds two records of one structure_id, and the
\* record emitted for a structure_id is the earliest row of that id that meets
\* both thresholds and the keyword requirement: after the loop has handled the
\* first i - 1 records, the accepted identifiers and the table are exactly
\* those of the earliest qualifying rows among them, in sequence order.
C3_NoDuplicateEarliestWins ==
    InGetPdbFiles
        => /\ \A a, b \in 1..Len(pdb_names) : a # b => pdb_names[a] # pdb_names[b]
           /\ structures = TABLE_HEAD \o LinesOf(EarliestQualifying(i - 1), 1, i - 1)
           /\ Len(pdb_names) = Cardinality(EarliestQualifying(i - 1))
           /\ \A j \in EarliestQualifying(i - 1) : InList(proteins[j].pdb_id, pdb_names)

\* C3 witness: the loop has finished on a page where two rows of one
\* structure_id both qualify, and one record was emitted for them.
C3_Witness ==
    /\ pc = "done"
    /\ count >= 1
    /\ \E a, b \in 1..Len(proteins) :
          /\ a < b
          /\ proteins[a].pdb_id = proteins[b].pdb_id
          /\ Qualifies(proteins[a]) /\ Qualifies(proteins[b])

\* C4: when the header is found and at least one row is parsed but no row
\* survives the filter, the console shows the no-matches message and no count
\* line.
C4_NoSurvivorReportsNoMatch ==
    (pc = "done" /\ HeaderIndex(text) > 0 /\ Len(proteins) >= 1 /\ count = 0)
        => console = <<NO_PROTEINS_MSG>>

\* C5: when the retrieval of one accepted identifier raises, the run is not
\* aborted: once it has ended, every qualifying identifier has been fetched and
\* the report has been written.
C5_FetchFailureDoesNotAbort ==
    (pc \in {"done", "aborted"} /\ exc.raisedIn = "retrieve_pdb_file")
        => /\ pc = "done"
           /\ file # NoFile
           /\ \A j \in 1..Len(proteins) :
                 Qualifies(proteins[j]) => InList(proteins[j].pdb_id, fetchLog)

\* C6 as stated: once a structure-file fetch has been issued, no step takes the
\* filter decision of a record or renders a table line.
C6_FilterFormatBeforeFetch ==
    [][fetchLog # <<>>
         => /\ structures' = structures
            /\ ~(pc = "for" /\ i <= Len(proteins))]_vars

\* the number of lines of a text
LineCount(s) == 1 + Cardinality({k \in 1..Len(s) : s[k] = "\n"})

\* C6 as amended: filter, fetch and render are interleaved per record. A fetch
\* is attempted only for the record the filter has just accepted, after the
\* fetches and table lines of all earlier accepted records; a record's table
\* line is rendered only after its own fetch has returned.
C6_PerRecordOrder ==
    /\ Len(fetchLog) - Len(pdb_names) \in {0, 1}
    /\ pdb_names = SubSeq(fetchLog, 1, Len(pdb_names))
    /\ InGetPdbFiles => LineCount(structures) = 2 + Len(pdb_names)
    /\ pc = "retrieve"
          => /\ fetchLog = pdb_names
             /\ i <= Len(proteins)
             /\ Qualifies(proteins[i])
             /\ ~InList(proteins[i].pdb_id, pdb_names)
    /\ pc = "append" => fetchLog = Append(pdb_names, proteins[i].pdb_id)
    /\ pc \notin {"retrieve", "append", "aborted"} => fetchLog = pdb_names

\* C6 witness: the filter has accepted a record after the fetch and the table
\* line of an earlier one.
C6_Witness ==
    /\ pc = "retrieve"
    /\ fetchLog # <<>>
    /\ LineCount(structures) > 2

\* C7: once scrape_page has been called on a page with a malformed row among
\* the first max_n rows below the header, the run is aborted by the parser's
\* exception: nothing is fetched, structures_list.txt is not written and
\* nothing is printed.
C7_MalformedRowAborts ==
    LET h == HeaderIndex(text)
    IN  (/\ ScrapeCalled
         /\ h > 0
         /\ \E k \in 1..Min(max_num, Len(text) - h) : MalformedRow(text[h + k]))
        => /\ pc = "aborted"
           /\ exc.raisedIn = "scrape_page"
           /\ exc.type \in {"IndexError", "ValueError"}
           /\ fetchLog = <<>>
           /\ file = NoFile
           /\ console = <<>>

\* C7 witness: the run was aborted by a malformed second row below a
\* well-formed first row that the filter would have accepted.
C7_Witness ==
    LET h == HeaderIndex(text)
    IN  /\ pc = "aborted"
        /\ h > 0
        /\ Len(text) >= h + 2
        /\ max_num >= 2
        /\ ~MalformedRow(text[h + 1])
        /\ Qualifies(ParseRow(text[h + 1]).protein)
        /\ MalformedRow(text[h + 2])

\* C8: on a page with no line equal to the header, scrape_page returns the
\* empty list and raises nothing, whatever max_n and the lines are.
C8_NoHeaderEmptyResult ==
    (ScrapeCalled /\ HeaderIndex(text) = 0)
        => /\ exc = NoExc
           /\ pc # "aborted"
           /\ proteins = <<>>

\* C8 witness: scrape_page has returned on a page without the header that holds
\* the header's words without its leading blanks, a well-formed row and a row
\* that is malformed as a data row.
C8_Witness ==
    /\ pc = "print_results"
    /\ HeaderIndex(text) = 0
    /\ \E k \in 1..Len(text) : text[k] = HeaderStripped
    /\ \E k \in 1..Len(text) : text[k] # HeaderStripped /\ MalformedRow(text[k])
    /\ \E k \in 1..Len(text) : ~MalformedRow(text[k])

\* C9: the filter accepts a record if and only if alignment_length >= the
\* alignment threshold, residue_count >= the residue threshold, its
\* structure_id is not yet accepted, and its description contains one of the
\* keywords as a case-sensitive substring.
C9_AcceptIffRule ==
    [][(pc = "for" /\ i <= Len(proteins))
         => ((pc' = "retrieve")
               <=> (/\ proteins[i].l_ali >= l_ali
                    /\ proteins[i].n_res >= n_res
                    /\ \A k \in 1..Len(pdb_names) : pdb_names[k] # proteins[i].pdb_id
                    /\ \E k \in 1..Len(desc) : Contains(proteins[i].description, desc[k])))]_vars

\* C9 witness: "Histone deacetylase" was accepted for the keyword "Histone".
C9_Witness ==
    /\ pc = "retrieve"
    /\ desc = <<KwHistone>>
    /\ proteins[i].description = TokHistone \o <<" ">> \o SubSeq(TokDeacetylase, 1, 11)

\* C10: for the records and keywords of the run, no pair of thresholds at
\* least as high as the run's accepts more records than the run did, and no
\* pair at most as high accepts fewer.
C10_MonotoneInThresholds ==
    pc = "write_pdb_list"
        => \A la, nr \in 0..MaxThresh :
              /\ (la >= l_ali /\ nr >= n_res)
                    => get_pdb_files(proteins, la, nr, desc)[2] <= count
              /\ (la <= l_ali /\ nr <= n_res)
                    => get_pdb_files(proteins, la, nr, desc)[2] >= count

\* C10 witness: the loop has finished with an accepted record, rows of one
\* structure_id were among the records, and a higher threshold accepts fewer.
C10_Witness ==
    /\ pc = "write_pdb_list"
    /\ count >= 1
    /\ \E a, b \in 1..Len(proteins) : a # b /\ proteins[a].pdb_id = proteins[b].pdb_id
    /\ \E la \in l_ali..MaxThresh : get_pdb_files(proteins, la, n_res, desc)[2] < count

=============================================================================
